---- MODULE Spec2Model ----
(***************************************************************************)
(* A model of go-pidonetest / virtrun: the QEMU argument builder, the      *)
(* top-level error handler, the initramfs archive life cycle of            *)
(* virtrun.Run, the QEMU process supervisor with its three goroutines,     *)
(* the console arguments of the QEMU transports, and the guest's           *)
(* sysinit.Main.                                                           *)
(***************************************************************************)
EXTENDS Integers, Sequences, FiniteSets, TLC

VARIABLES
    \* qemu.BuildArgumentStrings
    argPc, argList, argResult,
    \* main.handleRunError
    hPc, hErr, hExit, hOut,
    \* virtrun.Run
    rPc, cfg, irfs, tmpFile, removeCalls, rErr,
    \* the supervisor: run's main goroutine and what it returns
    pc, initrd, rc, err, wrapperExit, hostStderr,
    \* the QEMU child and what it has written
    child, exitStatus, outWritten, errWritten,
    \* the two pipes: the lines not yet read, and whether the read ends are closed
    stdoutPipe, stderrPipe, pipesClosed,
    \* the waiter goroutine and the done channel
    waiter, done,
    \* the reader goroutines, the lines each has scanned, and their outputs
    outReader, errReader, outScanned, errScanned, rcStream, hostStdout,
    \* signalStream, and for each signal delivered so far the state the child
    \* was in when it arrived
    signalStream, signals,
    \* qemu.TransportType and the closure returned by consoleArgsFunc
    transportType, consoleID, sharedDeviceValue, consoleCalls, devName,
    \* sysinit.Main: the guest process, its configuration, what main returned,
    \* what the user function returned, and the calls made so far in order
    sysPc, isPidOne, sysCfg, envLeft, sysExitCode, sysErr, fnResult, sysEvents

argVars == <<argPc, argList, argResult>>
errVars == <<hPc, hErr, hExit, hOut>>
runVars == <<rPc, cfg, irfs, tmpFile, removeCalls, rErr>>
supVars ==
    <<pc, initrd, rc, err, wrapperExit, hostStderr, child, exitStatus, outWritten,
      errWritten, stdoutPipe, stderrPipe, pipesClosed, waiter, done, outReader,
      errReader, outScanned, errScanned, rcStream, hostStdout, signalStream,
      signals>>
consVars == <<transportType, consoleID, sharedDeviceValue, consoleCalls, devName>>
sysVars ==
    <<sysPc, isPidOne, sysCfg, envLeft, sysExitCode, sysErr, fnResult, sysEvents>>
vars == <<argVars, errVars, runVars, supVars, consVars, sysVars>>

\* Each part of the program runs on its own: a step of one leaves the others.
OnlyArgs == UNCHANGED <<errVars, runVars, supVars, consVars, sysVars>>
OnlyErr == UNCHANGED <<argVars, runVars, supVars, consVars, sysVars>>
OnlyRun == UNCHANGED <<argVars, errVars, supVars, consVars, sysVars>>
OnlySup == UNCHANGED <<argVars, errVars, runVars, consVars, sysVars>>
OnlyCons == UNCHANGED <<argVars, errVars, runVars, supVars, sysVars>>
OnlySys == UNCHANGED <<argVars, errVars, runVars, supVars, consVars>>

\* Sequences over S of length at most n.
SeqsUpTo(S, n) == UNION {[1..k -> S] : k \in 0..n}

(***************************************************************************)
(* qemu.Argument and qemu.BuildArgumentStrings (src/unnamed/part_001)      *)
(***************************************************************************)

MaxArgs == 3
ArgNames == {"machine", "device"}
ArgValues == {"", "v1", "v2"}

UniqueArg(name, value) ==
    [name |-> name, value |-> value, nonUniqueName |-> FALSE]

RepeatableArg(name, value) ==
    [name |-> name, value |-> value, nonUniqueName |-> TRUE]

Arguments ==
    {UniqueArg(n, v) : n \in ArgNames, v \in ArgValues}
        \cup {RepeatableArg(n, v) : n \in ArgNames, v \in ArgValues}

UniqueName(a) == ~a.nonUniqueName

\* a.Equal(b): the receiver's tag alone decides how the two are compared.
Equal(a, b) ==
    IF a.name # b.name
    THEN FALSE
    ELSE IF a.nonUniqueName
         THEN a.value = b.value
         ELSE TRUE

\* slices.ContainsFunc(args[:idx], arg.Equal), idx counted from 1 here.
CollidesAt(as, idx) == \E j \in 1..(idx - 1) : Equal(as[idx], as[j])

\* The strings one argument contributes: "-name", then the value if not empty.
ArgStrings(a) ==
    IF a.value # "" THEN <<"-" \o a.name, a.value>> ELSE <<"-" \o a.name>>

RECURSIVE ConcatArgStrings(_)
ConcatArgStrings(as) ==
    IF as = <<>>
    THEN <<>>
    ELSE ConcatArgStrings(SubSeq(as, 1, Len(as) - 1)) \o ArgStrings(as[Len(as)])

BuildArgumentStrings(as) ==
    IF \E idx \in 1..Len(as) : CollidesAt(as, idx)
    THEN [ok |-> FALSE, strings |-> <<>>]
    ELSE [ok |-> TRUE, strings |-> ConcatArgStrings(as)]

NoResult == [ok |-> FALSE, strings |-> <<"unset">>]

ArgsIdle == argPc = "idle" /\ argList = <<>> /\ argResult = NoResult

ArgsStart ==
    /\ argPc = "call"
    /\ argList \in SeqsUpTo(Arguments, MaxArgs)
    /\ argResult = NoResult

CallBuildArgumentStrings ==
    /\ argPc = "call"
    /\ argResult' = BuildArgumentStrings(argList)
    /\ argPc' = "done"
    /\ UNCHANGED argList
    /\ OnlyArgs

\* The collision-free lists of the argument contract: a name carried by a
\* unique argument occurs in no other argument, whatever its tag or position,
\* and no two repeatable arguments share a (name, value) pair.
CollisionFree(as) ==
    \A i, j \in 1..Len(as) :
        i # j =>
            /\ UniqueName(as[i]) => as[i].name # as[j].name
            /\ (as[i].nonUniqueName /\ as[j].nonUniqueName)
                   => ~(as[i].name = as[j].name /\ as[i].value = as[j].value)

\* C1: BuildArgumentStrings succeeds only on a collision-free list and
\* rejects every other list: a unique name never occurs in a second argument
\* and no (name, value) pair is repeated in a built vector.
C1_BuildOnlyCollisionFree ==
    argPc = "done" => (argResult.ok <=> CollisionFree(argList))

(***************************************************************************)
(* main.handleRunError (src/testing/cmd/return/main.go, 128-169)           *)
(***************************************************************************)

MaxChain == 3
CmdExitCodes == {0, 1, 42}

\* An error value is nil (the empty chain) or a chain of layers, outermost
\* first, as errors.Unwrap walks it.
WrapLayer == [kind |-> "wrap", code |-> 0]
HelpLayer == [kind |-> "ErrHelp", code |-> 0]
ParseArgsLayer == [kind |-> "ParseArgsError", code |-> 0]
GuestNonZeroLayer == [kind |-> "ErrGuestNonZeroExitCode", code |-> 0]
CommandErrorLayer(c) == [kind |-> "CommandError", code |-> c]

ErrLayers ==
    {WrapLayer, HelpLayer, ParseArgsLayer, GuestNonZeroLayer}
        \cup {CommandErrorLayer(c) : c \in CmdExitCodes}

\* Sentinel errors wrap nothing, and a chain holds at most one CommandError.
IsLeafKind(k) == k \in {"ErrHelp", "ErrGuestNonZeroExitCode"}

WellFormedChain(e) ==
    /\ \A i \in 1..(Len(e) - 1) : ~IsLeafKind(e[i].kind)
    /\ Cardinality({i \in 1..Len(e) : e[i].kind = "CommandError"}) <= 1

ErrValues == {e \in SeqsUpTo(ErrLayers, MaxChain) : WellFormedChain(e)}

\* errors.Is(err, target) for the sentinel and type-matched targets used.
ErrorsIs(e, kind) == \E i \in 1..Len(e) : e[i].kind = kind

\* errors.As(err, &qemuCmdErr): the outermost CommandError of the chain.
ErrorsAs(e) ==
    LET idx == {i \in 1..Len(e) : e[i].kind = "CommandError"}
    IN  IF idx = {}
        THEN [found |-> FALSE, ExitCode |-> 0]
        ELSE [found |-> TRUE,
              ExitCode |-> e[CHOOSE i \in idx : \A j \in idx : i <= j].code]

\* err.Error(): each layer prints its own text in front of what it wraps.
LayerText(l) ==
    CASE l.kind = "wrap" -> "run"
      [] l.kind = "ErrHelp" -> "flag: help requested"
      [] l.kind = "ParseArgsError" -> "parse args"
      [] l.kind = "ErrGuestNonZeroExitCode" -> "guest non-zero exit code"
      [] l.kind = "CommandError" -> "qemu command"

ErrorText(e) == [i \in 1..Len(e) |-> LayerText(e[i])]

ErrorLine(e) == <<"Error: ">> \o ErrorText(e)

\* handleRunError with a CommandError's exit code taken even when it is 0.
handleRunError_ZeroExitCode(e) ==
    IF e = <<>>
    THEN [exitCode |-> 0, written |-> <<>>]
    ELSE IF ErrorsIs(e, "ErrHelp")
    THEN [exitCode |-> 0, written |-> <<>>]
    ELSE IF ErrorsIs(e, "ParseArgsError")
    THEN [exitCode |-> -1, written |-> <<>>]
    ELSE LET as == ErrorsAs(e)
             exitCode == IF as.found THEN as.ExitCode ELSE -1
         IN  IF ErrorsIs(e, "ErrGuestNonZeroExitCode")
             THEN [exitCode |-> exitCode, written |-> <<>>]
             ELSE [exitCode |-> exitCode, written |-> <<ErrorLine(e)>>]

\* handleRunError without the silent return for ErrGuestNonZeroExitCode.
handleRunError_PrintGuestNonZero(e) ==
    IF e = <<>>
    THEN [exitCode |-> 0, written |-> <<>>]
    ELSE IF ErrorsIs(e, "ErrHelp")
    THEN [exitCode |-> 0, written |-> <<>>]
    ELSE IF ErrorsIs(e, "ParseArgsError")
    THEN [exitCode |-> -1, written |-> <<>>]
    ELSE LET as == ErrorsAs(e)
             exitCode == IF as.found /\ as.ExitCode # 0 THEN as.ExitCode ELSE -1
         IN  [exitCode |-> exitCode, written |-> <<ErrorLine(e)>>]

\* The exit code handleRunError returns and the lines it writes to errWriter.
handleRunError(e) ==
    IF e = <<>>
    THEN [exitCode |-> 0, written |-> <<>>]
    ELSE IF ErrorsIs(e, "ErrHelp")
    THEN [exitCode |-> 0, written |-> <<>>]
    ELSE IF ErrorsIs(e, "ParseArgsError")
    THEN [exitCode |-> -1, written |-> <<>>]
    ELSE LET as == ErrorsAs(e)
             exitCode == IF as.found /\ as.ExitCode # 0 THEN as.ExitCode ELSE -1
         IN  IF ErrorsIs(e, "ErrGuestNonZeroExitCode")
             THEN [exitCode |-> exitCode, written |-> <<>>]
             ELSE [exitCode |-> exitCode, written |-> <<ErrorLine(e)>>]

\* hExit holds the argument of os.Exit once main has called it.
ErrIdle == hPc = "idle" /\ hErr = <<>> /\ hExit = <<>> /\ hOut = <<>>

ErrStart ==
    /\ hPc = "call"
    /\ hErr \in ErrValues
    /\ hExit = <<>>
    /\ hOut = <<>>

\* main: exitCode := handleRunError(err, os.Stderr); os.Exit(exitCode)
CallHandleRunError ==
    /\ hPc = "call"
    /\ LET r == handleRunError(hErr)
       IN  /\ hExit' = <<r.exitCode>>
           /\ hOut' = hOut \o r.written
    /\ hPc' = "exited"
    /\ UNCHANGED hErr
    /\ OnlyErr

\* The exit code the error-to-exit-code mapping prescribes for an error value.
MappedExitCode(e) ==
    IF e = <<>> THEN 0
    ELSE IF \E i \in 1..Len(e) : e[i] = HelpLayer THEN 0
    ELSE IF \E i \in 1..Len(e) : e[i] = ParseArgsLayer THEN -1
    ELSE IF \E i \in 1..Len(e) : e[i].kind = "CommandError" /\ e[i].code # 0
    THEN (CHOOSE c \in CmdExitCodes :
              \E i \in 1..Len(e) : e[i] = CommandErrorLayer(c))
    ELSE -1

\* C4: handleRunError maps nil and help to 0, a ParseArgsError to -1, a
\* CommandError with exit code c # 0 to c, and every other error to -1.
C4_ExitCodeMapping ==
    hPc = "exited" => hExit = <<MappedExitCode(hErr)>>

C4_Witness ==
    /\ hPc = "exited"
    /\ hErr = <<WrapLayer, CommandErrorLayer(42)>>
    /\ hExit = <<42>>

\* The errors for which only the exit code propagates.
SilentError(e) ==
    \/ e = <<>>
    \/ \E i \in 1..Len(e) :
           e[i] \in {HelpLayer, ParseArgsLayer, GuestNonZeroLayer}

\* C5: handleRunError writes nothing for nil, help, ParseArgsError and
\* ErrGuestNonZeroExitCode, and exactly one "Error: <message>" line for
\* every other error.
C5_ErrorBanner ==
    hPc = "exited" =>
        IF SilentError(hErr)
        THEN hOut = <<>>
        ELSE /\ Len(hOut) = 1
             /\ hOut[1][1] = "Error: "
             /\ SubSeq(hOut[1], 2, Len(hOut[1])) = ErrorText(hErr)

C5_Witness ==
    /\ hPc = "exited"
    /\ hErr = <<WrapLayer, CommandErrorLayer(1)>>
    /\ Len(hOut) = 1

(***************************************************************************)
(* virtrun.Run (src/internal/virtrun/virtrun.go) and                       *)
(* BuildInitramfsArchive (src/internal/virtrun/initramfs.go)               *)
(***************************************************************************)

MaxFiles == 2
MaxModules == 1

ELFArchs == {"amd64", "arm64", "riscv64"}
\* What sys.ReadELFArch finds in the main binary.
BinaryKinds == ELFArchs \cup {"notELF"}

\* A host path is <<directory, basename>>.
FilePaths == {<<"/a", "x">>, <<"/b", "x">>, <<"/a", "y">>}
ModulePaths == {<<"/m", "veth.ko">>}
LibPaths == {<<"/usr/lib", "libc.so.6">>}

dataDir == "/data"
libsDir == "/lib"
modulesDir == "/lib/modules"

baseName(p) == p[2]
dirName(p) == p[1]

Initramfs ==
    [Binary : BinaryKinds,
     Files : SeqsUpTo(FilePaths, MaxFiles),
     Modules : SeqsUpTo(ModulePaths, MaxModules),
     StandaloneInit : BOOLEAN,
     Keep : BOOLEAN]

\* An initramfs.FS is the sequence of its entries in insertion order.
HasPath(fs, path) == \E i \in 1..Len(fs) : fs[i].path = path

\* fsBuilder.add / addFilePathAs: a regular file, refused when the name is taken.
AddFile(b, path, from) ==
    IF ~b.ok \/ HasPath(b.fs, path)
    THEN [ok |-> FALSE, fs |-> b.fs]
    ELSE [ok |-> TRUE,
          fs |-> Append(b.fs, [path |-> path, kind |-> "file", from |-> from])]

\* fsBuilder.symlink: a symbolic link, refused when the name is taken.
AddSymlink(b, path, target) ==
    IF ~b.ok \/ HasPath(b.fs, path)
    THEN [ok |-> FALSE, fs |-> b.fs]
    ELSE [ok |-> TRUE,
          fs |-> Append(b.fs, [path |-> path, kind |-> "symlink", from |-> target])]

\* fsBuilder.addFilesTo(dir, files, baseName): stops at the first failure.
RECURSIVE addFilesTo(_, _, _)
addFilesTo(b, dir, files) ==
    IF files = <<>> \/ ~b.ok
    THEN b
    ELSE addFilesTo(AddFile(b, <<dir, baseName(Head(files))>>, Head(files)),
                    dir, Tail(files))

\* fsBuilder.symlinkTo(libsDir, searchPaths)
RECURSIVE symlinkTo(_, _, _)
symlinkTo(b, target, libs) ==
    IF libs = <<>> \/ ~b.ok
    THEN b
    ELSE symlinkTo(
             IF HasPath(b.fs, <<dirName(Head(libs))>>)
             THEN b
             ELSE AddSymlink(b, <<dirName(Head(libs))>>, target),
             target, Tail(libs))

\* initFn of buildInitramfsArchive: the bundled init program, or in
\* standalone mode a symlink to main.
initFn(c, b, name) ==
    IF c.StandaloneInit
    THEN AddSymlink(b, <<"", name>>, "main")
    ELSE AddFile(b, <<"", name>>, <<"initProg", c.Binary>>)

\* buildInitramFS that adds init only after the data files.
buildInitramFS_InitAfterData(c, libs) ==
    LET b0 == [ok |-> TRUE, fs |-> <<>>]
        b1 == AddFile(b0, <<"", "main">>, <<"binary", c.Binary>>)
        b2 == addFilesTo(b1, dataDir, c.Files)
        b3 == initFn(c, b2, "init")
        b4 == addFilesTo(b3, modulesDir, c.Modules)
        b5 == addFilesTo(b4, libsDir, libs)
        b6 == symlinkTo(b5, libsDir, libs)
    IN  b6

buildInitramFS(c, libs) ==
    LET b0 == [ok |-> TRUE, fs |-> <<>>]
        b1 == AddFile(b0, <<"", "main">>, <<"binary", c.Binary>>)
        b2 == initFn(c, b1, "init")
        b3 == addFilesTo(b2, dataDir, c.Files)
        b4 == addFilesTo(b3, modulesDir, c.Modules)
        b5 == addFilesTo(b4, libsDir, libs)
        b6 == symlinkTo(b5, libsDir, libs)
    IN  b6

\* What sys.CollectLibsFor may answer: an error, or the libraries found.
CollectLibsResults ==
    {[ok |-> FALSE, libs |-> <<>>]}
        \cup {[ok |-> TRUE, libs |-> l] : l \in SeqsUpTo(LibPaths, 1)}

\* removeFn that deletes the file whatever Keep says.
removeFn_IgnoreKeep(keep, exists) ==
    [exists |-> FALSE,
     err |-> IF exists THEN "nil" ELSE "ENOENT",
     log |-> "Remove initramfs"]

\* The disposal action BuildInitramfsArchive returns: what it leaves of the
\* file, the error it returns and what it logs.
removeFn(keep, exists) ==
    IF keep
    THEN [exists |-> exists, err |-> "nil", log |-> "Keep initramfs"]
    ELSE [exists |-> FALSE,
          err |-> IF exists THEN "nil" ELSE "ENOENT",
          log |-> "Remove initramfs"]

RunIdle ==
    /\ rPc = "idle"
    /\ cfg = [Binary |-> "amd64", Files |-> <<>>, Modules |-> <<>>,
              StandaloneInit |-> FALSE, Keep |-> FALSE]
    /\ irfs = <<>>
    /\ tmpFile = "none"
    /\ removeCalls = <<>>
    /\ rErr = "unset"

RunStart ==
    /\ rPc = "ReadELFArch"
    /\ cfg \in Initramfs
    /\ irfs = <<>>
    /\ tmpFile = "none"
    /\ removeCalls = <<>>
    /\ rErr = "unset"

\* BuildInitramfsArchive: sys.ReadELFArch(cfg.Binary)
ReadELFArch ==
    /\ rPc = "ReadELFArch"
    /\ IF cfg.Binary \in ELFArchs
       THEN rPc' = "buildInitramfsArchive" /\ rErr' = rErr
       ELSE rPc' = "returned" /\ rErr' = "read main binary arch"
    /\ UNCHANGED <<cfg, irfs, tmpFile, removeCalls>>
    /\ OnlyRun

\* buildInitramfsArchive: collect the libraries, then assemble the tree.
BuildInitramfsTree ==
    /\ rPc = "buildInitramfsArchive"
    /\ \E libs \in CollectLibsResults :
           IF ~libs.ok
           THEN rPc' = "returned" /\ rErr' = "collect libs" /\ irfs' = irfs
           ELSE LET b == buildInitramFS(cfg, libs.libs)
                IN  IF b.ok
                    THEN rPc' = "CreateTemp" /\ rErr' = rErr /\ irfs' = b.fs
                    ELSE rPc' = "returned" /\ rErr' = "build" /\ irfs' = irfs
    /\ UNCHANGED <<cfg, tmpFile, removeCalls>>
    /\ OnlyRun

\* writeFSToTempFile: os.CreateTemp
CreateTemp ==
    /\ rPc = "CreateTemp"
    /\ \E ok \in BOOLEAN :
           IF ok
           THEN rPc' = "AddFS" /\ tmpFile' = "exists" /\ rErr' = rErr
           ELSE rPc' = "returned" /\ tmpFile' = tmpFile
                /\ rErr' = "create archive file"
    /\ UNCHANGED <<cfg, irfs, removeCalls>>
    /\ OnlyRun

\* writeFSToTempFile that returns the write error without removing the file.
WriteArchive_LeaveFile ==
    /\ rPc = "AddFS"
    /\ \E ok \in BOOLEAN :
           IF ok
           THEN rPc' = "NewQemuCommand" /\ tmpFile' = tmpFile /\ rErr' = rErr
           ELSE rPc' = "returned" /\ tmpFile' = tmpFile
                /\ rErr' = "write archive"
    /\ UNCHANGED <<cfg, irfs, removeCalls>>
    /\ OnlyRun

\* writeFSToTempFile: writer.AddFS, removing the file when writing fails;
\* on success BuildInitramfsArchive returns and Run defers removeFn.
WriteArchive ==
    /\ rPc = "AddFS"
    /\ \E ok \in BOOLEAN :
           IF ok
           THEN rPc' = "NewQemuCommand" /\ tmpFile' = tmpFile /\ rErr' = rErr
           ELSE rPc' = "returned" /\ tmpFile' = "removed"
                /\ rErr' = "write archive"
    /\ UNCHANGED <<cfg, irfs, removeCalls>>
    /\ OnlyRun

\* Run returns err with removeFn deferred: the deferred call runs first.
RunReturn(e) ==
    LET r == removeFn(cfg.Keep, tmpFile = "exists")
    IN  /\ removeCalls' = Append(removeCalls, [err |-> r.err, log |-> r.log,
                                               deleted |-> tmpFile = "exists" /\ ~r.exists])
        /\ tmpFile' = IF r.exists THEN "exists" ELSE "removed"
        /\ rErr' = e
        /\ rPc' = "returned"

\* Run: NewQemuCommand(ctx, spec.Qemu, path)
NewQemuCommand ==
    /\ rPc = "NewQemuCommand"
    /\ \E ok \in BOOLEAN :
           IF ok
           THEN rPc' = "cmd.Run" /\ UNCHANGED <<tmpFile, removeCalls, rErr>>
           ELSE RunReturn("new qemu command")
    /\ UNCHANGED <<cfg, irfs>>
    /\ OnlyRun

\* The ways cmd.Run ends: nil, a failed VM, a guest-reported code, cancellation.
CmdRunResults == {"nil", "qemu run: vm failed", "qemu run: guest non-zero",
                  "qemu run: cancelled"}

\* Run: cmd.Run(outWriter, errWriter)
CmdRun ==
    /\ rPc = "cmd.Run"
    /\ \E res \in CmdRunResults : RunReturn(res)
    /\ UNCHANGED <<cfg, irfs>>
    /\ OnlyRun

RunNext ==
    \/ ReadELFArch
    \/ BuildInitramfsTree
    \/ CreateTemp
    \/ WriteArchive
    \/ NewQemuCommand
    \/ CmdRun

\* Run got past BuildInitramfsArchive: it is in, or returned from, a later step.
ArchiveBuilt ==
    \/ rPc \in {"NewQemuCommand", "cmd.Run"}
    \/ rPc = "returned" /\ rErr \in {"new qemu command"} \cup CmdRunResults

\* C3: once the archive is built the disposal action runs exactly once, when
\* Run returns and on every way it returns; afterwards the file is gone
\* unless Keep is set, and with Keep the action deleted nothing, returned no
\* error and the file is still there.
C3_DisposalOnEveryReturn ==
    ArchiveBuilt =>
        IF rPc = "returned"
        THEN /\ Len(removeCalls) = 1
             /\ IF cfg.Keep
                THEN /\ tmpFile = "exists"
                     /\ removeCalls[1].err = "nil"
                     /\ ~removeCalls[1].deleted
                ELSE tmpFile = "removed"
        ELSE removeCalls = <<>> /\ tmpFile = "exists"

C3_Witness ==
    /\ rPc = "returned"
    /\ rErr = "qemu run: cancelled"
    /\ cfg.Keep
    /\ tmpFile = "exists"
    /\ Len(removeCalls) = 1

\* C13: a tree buildInitramFS returns without error has main first, a
\* regular file for the user binary, and init right after it, ahead of every
\* data, module and library entry: a symlink to main with StandaloneInit, the
\* bundled init program as a regular file without.
C13_MainThenInit ==
    irfs # <<>> =>
        /\ Len(irfs) >= 2
        /\ irfs[1] = [path |-> <<"", "main">>, kind |-> "file",
                      from |-> <<"binary", cfg.Binary>>]
        /\ irfs[2].path = <<"", "init">>
        /\ IF cfg.StandaloneInit
           THEN irfs[2].kind = "symlink" /\ irfs[2].from = "main"
           ELSE irfs[2].kind = "file" /\ irfs[2].from = <<"initProg", cfg.Binary>>
        /\ \A i \in 3..Len(irfs) :
              /\ irfs[i].path \notin {<<"", "main">>, <<"", "init">>}
              /\ Len(irfs[i].path) = 2 =>
                    irfs[i].path[1] \in {dataDir, modulesDir, libsDir}

\* A standalone tree with two data files, a module and a library.
C13_Witness ==
    /\ irfs # <<>>
    /\ cfg.StandaloneInit
    /\ Len(cfg.Files) = 2
    /\ Len(cfg.Modules) = 1
    /\ Len(irfs) >= 6
    /\ irfs[2].kind = "symlink"

\* The errors BuildInitramfsArchive returns.
BuildArchiveErrors ==
    {"read main binary arch", "collect libs", "build", "create archive file",
     "write archive"}

\* Two of the extra files have the same basename.
SameBasename ==
    \E i, j \in 1..Len(cfg.Files) :
        i # j /\ baseName(cfg.Files[i]) = baseName(cfg.Files[j])

\* C16: when BuildInitramfsArchive returns an error no archive file is left:
\* arch detection, library collection and tree assembly (two extra files with
\* one basename among them) fail with no file created, a write failure
\* removes the file; a path and disposal action come back only with the
\* archive written.
C16_NoArchiveLeftOnError ==
    /\ (rPc = "returned" /\ rErr \in BuildArchiveErrors) =>
          /\ tmpFile # "exists"
          /\ removeCalls = <<>>
          /\ rErr \in {"read main binary arch", "collect libs", "build",
                       "create archive file"} => tmpFile = "none"
          /\ rErr = "write archive" => tmpFile = "removed"
    /\ (rPc = "returned" /\ SameBasename) =>
          /\ rErr \in {"read main binary arch", "collect libs", "build"}
          /\ tmpFile = "none"
    /\ rPc = "NewQemuCommand" => (tmpFile = "exists" /\ irfs # <<>>)
    /\ rPc \in {"ReadELFArch", "buildInitramfsArchive", "CreateTemp"} =>
          tmpFile = "none"

\* Writing the archive failed after the file had been created.
C16_Witness ==
    /\ rPc = "returned"
    /\ rErr = "write archive"
    /\ tmpFile = "removed"
    /\ irfs # <<>>

(***************************************************************************)
(* The supervisor: run and main (src/testing/cmd/return/main.go, 191-316)  *)
(***************************************************************************)

MaxOutLines == 3
MaxErrLines == 1
MaxSignals == 1

\* A line of output: whether it starts with the literal "GO_PIDONETEST_RC:",
\* the decimal integer that follows (none: <<>>), and its remaining text.
TextLine(t) == [rcPrefix |-> FALSE, digits |-> <<>>, text |-> t]
SentinelLine(n) == [rcPrefix |-> TRUE, digits |-> <<n>>, text |-> ""]
MalformedSentinel == [rcPrefix |-> TRUE, digits |-> <<>>, text |-> "oops"]

GuestCodes == {0, 42}
StdoutLines ==
    {TextLine("hello"), MalformedSentinel} \cup {SentinelLine(n) : n \in GuestCodes}
StderrLines == {TextLine("warn")}

ExitStatuses == {0, 3}
Signals == {"SIGABRT", "SIGINT", "SIGTERM", "SIGQUIT", "SIGHUP"}

\* fmt.Sscanf(line, "GO_PIDONETEST_RC: %d", &rc)
Sscanf(line) ==
    IF line.rcPrefix /\ line.digits # <<>>
    THEN [err |-> FALSE, rc |-> line.digits[1]]
    ELSE [err |-> TRUE, rc |-> 0]

\* rc := 1
DefaultRC == 1

NoError == <<>>

SupIdle ==
    /\ pc = "idle"
    /\ initrd = "none"
    /\ child = "none"
    /\ exitStatus = <<>>
    /\ outWritten = <<>> /\ errWritten = <<>>
    /\ stdoutPipe = <<>> /\ stderrPipe = <<>>
    /\ pipesClosed = FALSE
    /\ waiter = "idle" /\ done = FALSE
    /\ outReader = "idle" /\ errReader = "idle"
    /\ outScanned = 0 /\ errScanned = 0
    /\ rcStream = <<>>
    /\ signalStream = <<>>
    /\ signals = <<>>
    /\ hostStdout = <<>> /\ hostStderr = <<>>
    /\ rc = <<>> /\ err = NoError /\ wrapperExit = <<>>

SupStart ==
    /\ pc = "resolveLinkedLibs"
    /\ initrd = "none"
    /\ child = "none"
    /\ exitStatus = <<>>
    /\ outWritten = <<>> /\ errWritten = <<>>
    /\ stdoutPipe = <<>> /\ stderrPipe = <<>>
    /\ pipesClosed = FALSE
    /\ waiter = "idle" /\ done = FALSE
    /\ outReader = "idle" /\ errReader = "idle"
    /\ outScanned = 0 /\ errScanned = 0
    /\ rcStream = <<>>
    /\ signalStream = <<>>
    /\ signals = <<>>
    /\ hostStdout = <<>> /\ hostStderr = <<>>
    /\ rc = <<>> /\ err = NoError /\ wrapperExit = <<>>

childVars == <<child, exitStatus, outWritten, errWritten>>
pipeVars == <<stdoutPipe, stderrPipe, pipesClosed>>
readerVars == <<outReader, errReader, outScanned, errScanned, rcStream, hostStdout>>
mainVars == <<pc, initrd, rc, err, wrapperExit, hostStderr>>
signalVars == <<signalStream, signals>>
waiterVars == <<waiter, done>>

\* The wrapper process is alive: its goroutines run, signals reach it.
Alive == pc \notin {"idle", "exited", "killed"}

------------------------------------------------------------------------------
\* The QEMU child: writes lines to its two pipes, then exits.

ChildWriteStdout ==
    /\ Alive /\ child = "running"
    /\ Len(outWritten) < MaxOutLines
    /\ \E l \in StdoutLines :
           /\ outWritten' = Append(outWritten, l)
           /\ stdoutPipe' = Append(stdoutPipe, l)
    /\ UNCHANGED <<child, exitStatus, errWritten, stderrPipe, pipesClosed>>
    /\ UNCHANGED <<readerVars, mainVars, signalVars, waiterVars>>
    /\ OnlySup

ChildWriteStderr ==
    /\ Alive /\ child = "running"
    /\ Len(errWritten) < MaxErrLines
    /\ \E l \in StderrLines :
           /\ errWritten' = Append(errWritten, l)
           /\ stderrPipe' = Append(stderrPipe, l)
    /\ UNCHANGED <<child, exitStatus, outWritten, stdoutPipe, pipesClosed>>
    /\ UNCHANGED <<readerVars, mainVars, signalVars, waiterVars>>
    /\ OnlySup

ChildExit ==
    /\ Alive /\ child = "running"
    /\ \E st \in ExitStatuses : exitStatus' = <<st>>
    /\ child' = "exited"
    /\ UNCHANGED <<outWritten, errWritten>>
    /\ UNCHANGED <<pipeVars, readerVars, mainVars, signalVars, waiterVars>>
    /\ OnlySup

------------------------------------------------------------------------------
\* The process waiter goroutine (239-243).

\* cmd.Wait(): returns once the child has exited; before returning it closes
\* the read ends of the pipes StdoutPipe and StderrPipe handed out.
WaiterWait ==
    /\ Alive /\ waiter = "cmd.Wait"
    /\ child = "exited"
    /\ pipesClosed' = TRUE
    /\ waiter' = "close(done)"
    /\ UNCHANGED <<stdoutPipe, stderrPipe, done>>
    /\ UNCHANGED <<childVars, readerVars, mainVars, signalVars>>
    /\ OnlySup

WaiterCloseDone ==
    /\ Alive /\ waiter = "close(done)"
    /\ done' = TRUE
    /\ waiter' = "finished"
    /\ UNCHANGED <<childVars, pipeVars, readerVars, mainVars, signalVars>>
    /\ OnlySup

------------------------------------------------------------------------------
\* The stdout reader goroutine (248-262).

\* One turn of the scanner loop on a line read from the pipe.
\* The stdout reader sending on rcStream without looking at len(rcStream):
\* with the one slot taken the send blocks.
StdoutScanLine_SendUnchecked ==
    /\ Alive /\ outReader = "scan"
    /\ ~pipesClosed /\ stdoutPipe # <<>>
    /\ LET line == Head(stdoutPipe)
           m == Sscanf(line)
       IN  /\ m.err \/ Len(rcStream) = 0
           /\ stdoutPipe' = Tail(stdoutPipe)
           /\ outScanned' = outScanned + 1
           /\ IF m.err
              THEN /\ hostStdout' = Append(hostStdout, line)
                   /\ rcStream' = rcStream
              ELSE /\ hostStdout' = hostStdout
                   /\ rcStream' = <<m.rc>>
    /\ UNCHANGED <<stderrPipe, pipesClosed, outReader, errReader, errScanned>>
    /\ UNCHANGED <<childVars, mainVars, signalVars, waiterVars>>
    /\ OnlySup

StdoutScanLine ==
    /\ Alive /\ outReader = "scan"
    /\ ~pipesClosed /\ stdoutPipe # <<>>
    /\ LET line == Head(stdoutPipe)
           m == Sscanf(line)
       IN  /\ stdoutPipe' = Tail(stdoutPipe)
           /\ outScanned' = outScanned + 1
           /\ IF m.err
              THEN /\ hostStdout' = Append(hostStdout, line)
                   /\ rcStream' = rcStream
              ELSE /\ hostStdout' = hostStdout
                   /\ rcStream' = IF Len(rcStream) = 0 THEN <<m.rc>> ELSE rcStream
    /\ UNCHANGED <<stderrPipe, pipesClosed, outReader, errReader, errScanned>>
    /\ UNCHANGED <<childVars, mainVars, signalVars, waiterVars>>
    /\ OnlySup

\* scanner.Scan() returns false: the read end was closed under the reader,
\* or the child is gone and the pipe is drained.  readGroup.Done().
StdoutScanEnd ==
    /\ Alive /\ outReader = "scan"
    /\ pipesClosed \/ (child = "exited" /\ stdoutPipe = <<>>)
    /\ outReader' = "done"
    /\ UNCHANGED <<errReader, outScanned, errScanned, rcStream, hostStdout>>
    /\ UNCHANGED <<childVars, pipeVars, mainVars, signalVars, waiterVars>>
    /\ OnlySup

------------------------------------------------------------------------------
\* The stderr reader goroutine (265-272): fmt.Println writes to os.Stdout.

StderrScanLine ==
    /\ Alive /\ errReader = "scan"
    /\ ~pipesClosed /\ stderrPipe # <<>>
    /\ stderrPipe' = Tail(stderrPipe)
    /\ errScanned' = errScanned + 1
    /\ hostStdout' = Append(hostStdout, Head(stderrPipe))
    /\ UNCHANGED <<stdoutPipe, pipesClosed, outReader, errReader, outScanned, rcStream>>
    /\ UNCHANGED <<childVars, mainVars, signalVars, waiterVars>>
    /\ OnlySup

StderrScanEnd ==
    /\ Alive /\ errReader = "scan"
    /\ pipesClosed \/ (child = "exited" /\ stderrPipe = <<>>)
    /\ errReader' = "done"
    /\ UNCHANGED <<outReader, outScanned, errScanned, rcStream, hostStdout>>
    /\ UNCHANGED <<childVars, pipeVars, mainVars, signalVars, waiterVars>>
    /\ OnlySup

------------------------------------------------------------------------------
\* The main goroutine of run (191-292) and main (310-315).

\* The deferred calls of run, in the order they run on return: p.Kill(),
\* stderr.Close(), stdout.Close(), os.RemoveAll(initrdFilePath).  A killed
\* child has exit status -1.
Deferred(started) ==
    /\ child' = IF started /\ child = "running" THEN "exited" ELSE child
    /\ exitStatus' = IF started /\ child = "running" THEN <<-1>> ELSE exitStatus
    /\ pipesClosed' = TRUE
    /\ initrd' = "removed"

\* return r, e; then main prints the error, if any, and calls os.Exit(rc)
\* (310-315).
Return(r, e) ==
    /\ rc' = <<r>>
    /\ err' = e
    /\ hostStderr' = IF e # NoError
                     THEN Append(hostStderr, [banner |-> "Error:", message |-> e])
                     ELSE hostStderr
    /\ wrapperExit' = <<r>>
    /\ pc' = "exited"

\* resolveLinkedLibs fails, or finds the test binary dynamically linked.
ResolveLinkedLibs ==
    /\ pc = "resolveLinkedLibs"
    /\ \E res \in {"ok", "error", "linked"} :
           IF res = "ok"
           THEN pc' = "createInitrd" /\ UNCHANGED <<rc, err, wrapperExit, hostStderr>>
           ELSE Return(1, <<"resolve linked libs", res>>)
    /\ UNCHANGED initrd
    /\ UNCHANGED <<childVars, pipeVars, readerVars, signalVars, waiterVars>>
    /\ OnlySup

CreateInitrd ==
    /\ pc = "createInitrd"
    /\ \E ok \in BOOLEAN :
           IF ok
           THEN /\ pc' = "cmd.Start" /\ initrd' = "exists"
                /\ UNCHANGED <<rc, err, wrapperExit, hostStderr>>
           ELSE Return(1, <<"create initrd">>) /\ initrd' = initrd
    /\ UNCHANGED <<childVars, pipeVars, readerVars, signalVars, waiterVars>>
    /\ OnlySup

\* cmd.StdoutPipe(), cmd.StderrPipe(), cmd.Start() (217-231)
StartCmd ==
    /\ pc = "cmd.Start"
    /\ \E res \in {"ok", "get stdout", "get stderr", "run qemu"} :
           IF res = "ok"
           THEN /\ pc' = "go"
                /\ child' = "running"
                /\ UNCHANGED <<rc, err, wrapperExit, hostStderr>>
                /\ UNCHANGED <<initrd, exitStatus, pipesClosed>>
           ELSE Return(1, <<res>>) /\ Deferred(FALSE)
    /\ UNCHANGED <<outWritten, errWritten, stdoutPipe, stderrPipe>>
    /\ UNCHANGED <<readerVars, signalVars, waiterVars>>
    /\ OnlySup

\* The three go statements (239-272).
StartGoroutines ==
    /\ pc = "go"
    /\ waiter' = "cmd.Wait"
    /\ outReader' = "scan"
    /\ errReader' = "scan"
    /\ pc' = "signal.Notify"
    /\ UNCHANGED <<initrd, rc, err, wrapperExit, hostStderr, done>>
    /\ UNCHANGED <<outScanned, errScanned, rcStream, hostStdout>>
    /\ UNCHANGED <<childVars, pipeVars, signalVars>>
    /\ OnlySup

\* signal.Notify(signalStream, ...) (274-277)
Notify ==
    /\ pc = "signal.Notify"
    /\ pc' = "select"
    /\ UNCHANGED <<initrd, rc, err, wrapperExit, hostStderr>>
    /\ UNCHANGED <<childVars, pipeVars, readerVars, signalVars, waiterVars>>
    /\ OnlySup

\* case sig := <-signalStream: return rc, fmt.Errorf("signal received ...")
SelectSignal ==
    /\ pc = "select"
    /\ signalStream # <<>>
    /\ signalStream' = Tail(signalStream)
    /\ Return(DefaultRC, <<"signal received", Head(signalStream)>>)
    /\ Deferred(TRUE)
    /\ UNCHANGED <<outWritten, errWritten, stdoutPipe, stderrPipe>>
    /\ UNCHANGED <<signals, readerVars, waiterVars>>
    /\ OnlySup

\* case <-done: break
SelectDone ==
    /\ pc = "select"
    /\ done
    /\ pc' = "os.Remove"
    /\ UNCHANGED <<initrd, rc, err, wrapperExit, hostStderr>>
    /\ UNCHANGED <<childVars, pipeVars, readerVars, signalVars, waiterVars>>
    /\ OnlySup

\* _ = os.Remove(initrdFilePath)
RemoveInitrd ==
    /\ pc = "os.Remove"
    /\ initrd' = "removed"
    /\ pc' = "readGroup.Wait"
    /\ UNCHANGED <<rc, err, wrapperExit, hostStderr>>
    /\ UNCHANGED <<childVars, pipeVars, readerVars, signalVars, waiterVars>>
    /\ OnlySup

\* The result run picks once both readers are done (288-291).
SelectResult(stream) ==
    IF Len(stream) = 1 THEN stream[1] ELSE DefaultRC

\* readGroup.Wait(); if len(rcStream) == 1 { rc = <-rcStream }; return rc, nil
ReadGroupWait ==
    /\ pc = "readGroup.Wait"
    /\ outReader = "done" /\ errReader = "done"
    /\ rcStream' = IF Len(rcStream) = 1 THEN Tail(rcStream) ELSE rcStream
    /\ Return(SelectResult(rcStream), NoError)
    /\ Deferred(TRUE)
    /\ UNCHANGED <<outWritten, errWritten, stdoutPipe, stderrPipe>>
    /\ UNCHANGED <<outReader, errReader, outScanned, errScanned, hostStdout>>
    /\ UNCHANGED <<signalVars, waiterVars>>
    /\ OnlySup

------------------------------------------------------------------------------
\* Signals sent to the wrapper.

\* A signal after signal.Notify: queued on signalStream if there is room,
\* dropped otherwise.
SignalNotified ==
    /\ pc \in {"select", "os.Remove", "readGroup.Wait"}
    /\ Len(signals) < MaxSignals
    /\ \E sig \in Signals :
           /\ signals' = Append(signals, [child |-> child])
           /\ signalStream' = IF Len(signalStream) < 1
                              THEN Append(signalStream, sig)
                              ELSE signalStream
    /\ UNCHANGED <<childVars, pipeVars, readerVars, mainVars, waiterVars>>
    /\ OnlySup

\* A signal before signal.Notify: the Go runtime ends the process.
SignalDefault ==
    /\ pc \in {"resolveLinkedLibs", "createInitrd", "cmd.Start", "go", "signal.Notify"}
    /\ Len(signals) < MaxSignals
    /\ \E sig \in Signals :
           signals' = Append(signals, [child |-> child])
    /\ pc' = "killed"
    /\ UNCHANGED <<initrd, rc, err, wrapperExit, hostStderr, signalStream>>
    /\ UNCHANGED <<childVars, pipeVars, readerVars, waiterVars>>
    /\ OnlySup

SupNext ==
    \/ ChildWriteStdout
    \/ ChildWriteStderr
    \/ ChildExit
    \/ WaiterWait
    \/ WaiterCloseDone
    \/ StdoutScanLine
    \/ StdoutScanEnd
    \/ StderrScanLine
    \/ StderrScanEnd
    \/ ResolveLinkedLibs
    \/ CreateInitrd
    \/ StartCmd
    \/ StartGoroutines
    \/ Notify
    \/ SelectSignal
    \/ SelectDone
    \/ RemoveInitrd
    \/ ReadGroupWait
    \/ SignalNotified
    \/ SignalDefault

------------------------------------------------------------------------------
\* The claims about the supervisor.

\* A line matching the sentinel GO_PIDONETEST_RC: <decimal>.
IsSentinel(l) == l.rcPrefix /\ l.digits # <<>>

HasSentinel(lines) == \E i \in 1..Len(lines) : IsSentinel(lines[i])

\* The integer of the first sentinel line of lines.
FirstSentinelCode(lines) ==
    LET first == CHOOSE i \in 1..Len(lines) :
                     /\ IsSentinel(lines[i])
                     /\ \A j \in 1..(i - 1) : ~IsSentinel(lines[j])
    IN  lines[first].digits[1]

\* run came back through case <-done, with no error.
ReturnedAfterDone == pc = "exited" /\ err = NoError

\* C2: when the VM exits cleanly, the result code is the integer of the
\* first sentinel line the child wrote, whatever sentinels follow, and the
\* wrapper exits with it.
C2_FirstSentinelIsResult ==
    (ReturnedAfterDone /\ exitStatus = <<0>> /\ HasSentinel(outWritten)) =>
        /\ rc = <<FirstSentinelCode(outWritten)>>
        /\ wrapperExit = <<FirstSentinelCode(outWritten)>>

\* An "Error:" banner is on the host's standard error.
ErrorBanner ==
    \E i \in 1..Len(hostStderr) :
        "banner" \in DOMAIN hostStderr[i] /\ hostStderr[i].banner = "Error:"

\* C6: a VM that exits with status 0 without any sentinel line is a failed
\* run: the wrapper exits with -1 and prints an "Error:" banner.
C6_MissingSentinelFails ==
    (ReturnedAfterDone /\ exitStatus = <<0>> /\ ~HasSentinel(outWritten)) =>
        /\ wrapperExit = <<-1>>
        /\ ErrorBanner

\* C7: without cancellation, a VM that exits with a non-zero status makes the
\* run a VM failure carrying that status, sentinel or not.
C7_VMExitStatusWins ==
    (pc = "exited" /\ signals = <<>> /\ child = "exited"
         /\ exitStatus # <<0>> /\ exitStatus # <<-1>>) =>
        /\ err # NoError
        /\ wrapperExit = exitStatus

\* The lines of lines that are in S, in order.
RECURSIVE Restrict(_, _)
Restrict(lines, S) ==
    IF lines = <<>>
    THEN <<>>
    ELSE IF Head(lines) \in S
         THEN <<Head(lines)>> \o Restrict(Tail(lines), S)
         ELSE Restrict(Tail(lines), S)

\* C8: every line the stderr reader has taken from the child is on the
\* host's standard error, unchanged, and none is on the host's standard
\* output.
C8_StderrForwardedToStderr ==
    /\ Restrict(hostStderr, StderrLines) = SubSeq(errWritten, 1, errScanned)
    /\ Restrict(hostStdout, StderrLines) = <<>>

\* C9: the result is chosen only after the child has exited and both readers
\* have reached the end of their stream, having processed every line the
\* child wrote.
C9_ResultAfterAllLinesProcessed ==
    ReturnedAfterDone =>
        /\ child = "exited"
        /\ outReader = "done" /\ errReader = "done"
        /\ outScanned = Len(outWritten)
        /\ errScanned = Len(errWritten)

\* A signal reached the wrapper while the child was running.
SignalledWhileRunning ==
    \E i \in 1..Len(signals) : signals[i].child = "running"

\* C10: a signal that arrives between the child's start and its exit ends
\* the run with the child terminated, the archive removed and a non-zero
\* exit code, sentinel or not.
C10_SignalCancelsRun ==
    (pc = "exited" /\ SignalledWhileRunning) =>
        /\ child = "exited"
        /\ initrd = "removed"
        /\ wrapperExit # <<0>>

\* What the stdout reader has put on the host's standard output.
ForwardedStdout == Restrict(hostStdout, StdoutLines)

\* The lines of lines that do not match the sentinel, in order.
NonSentinel(lines) == Restrict(lines, {l \in StdoutLines : ~IsSentinel(l)})

\* The stdout reader has forwarded the non-sentinel lines among those it has
\* scanned, in order and unchanged.
ForwardedOfScanned ==
    ForwardedStdout = NonSentinel(SubSeq(outWritten, 1, outScanned))

\* C17: the lines the stdout reader forwards to the host's standard output
\* are exactly the child's stdout lines that do not match the sentinel, in
\* order and unchanged, those before and those after the first sentinel
\* alike; no sentinel line is forwarded.
C17_NonSentinelLinesForwarded ==
    /\ ForwardedOfScanned
    /\ \A i \in 1..Len(hostStdout) : ~IsSentinel(hostStdout[i])
    /\ ReturnedAfterDone => ForwardedStdout = NonSentinel(outWritten)

\* The steps of each goroutine of the supervisor.
MainStep ==
    \/ ResolveLinkedLibs
    \/ CreateInitrd
    \/ StartCmd
    \/ StartGoroutines
    \/ Notify
    \/ SelectSignal
    \/ SelectDone
    \/ RemoveInitrd
    \/ ReadGroupWait
WaiterStep == WaiterWait \/ WaiterCloseDone
StdoutReaderStep == StdoutScanLine \/ StdoutScanEnd
StderrReaderStep == StderrScanLine \/ StderrScanEnd

\* The Go scheduler runs every goroutine that can take a step; the child and
\* the signals are the environment's and are promised nothing.
Fairness ==
    /\ WF_vars(MainStep)
    /\ WF_vars(WaiterStep)
    /\ WF_vars(StdoutReaderStep)
    /\ WF_vars(StderrReaderStep)

\* The wrapper process is over: main exited, or a signal ended the process.
Terminated == pc \in {"exited", "killed"}

\* A reader that is scanning can take a step unless its own pipe is open and
\* empty with the child still running: what the other reader, the waiter and
\* rcStream hold does not matter.
ReadersNeverBlocked ==
    /\ (Alive /\ outReader = "scan") =>
          \/ ENABLED StdoutReaderStep
          \/ ~pipesClosed /\ stdoutPipe = <<>> /\ child = "running"
    /\ (Alive /\ errReader = "scan") =>
          \/ ENABLED StderrReaderStep
          \/ ~pipesClosed /\ stderrPipe = <<>> /\ child = "running"

\* C18: once the child has exited the supervisor terminates; the stdout
\* reader is never blocked recording the exit code, however many sentinel
\* lines there are, rcStream never holding more than one value; neither
\* reader waits for the other reader or for the waiter.
C18_SupervisorTerminates ==
    /\ [](Len(rcStream) <= 1 /\ ReadersNeverBlocked)
    /\ (child = "exited") ~> Terminated

\* run returned after the stdout reader had scanned three sentinel lines.
C18_Witness ==
    /\ ReturnedAfterDone
    /\ outScanned = 3
    /\ \A i \in 1..3 : IsSentinel(outWritten[i])
    /\ errReader = "done"

(***************************************************************************)
(* qemu.TransportType and consoleArgsFunc (src/unnamed/part_002)           *)
(***************************************************************************)

MaxConsoleNum == 11
MaxConsoleCalls == 3

TransportTypeISA == "isa"
TransportTypePCI == "pci"
TransportTypeMMIO == "mmio"

\* A TransportType is a string: the three known values, the zero value and
\* some other string.
TransportTypes ==
    {TransportTypeISA, TransportTypePCI, TransportTypeMMIO, "", "usb"}

DecimalDigits == <<"0", "1", "2", "3", "4", "5", "6", "7", "8", "9">>

\* fmt's %d verb for a number that is not negative: its decimal digits, the
\* most significant first.
RECURSIVE FormatDecimal(_)
FormatDecimal(n) ==
    IF n < 10
    THEN DecimalDigits[n + 1]
    ELSE FormatDecimal(n \div 10) \o DecimalDigits[(n % 10) + 1]

\* strings.Join
RECURSIVE Join(_, _)
Join(elems, sep) ==
    IF elems = <<>>
    THEN ""
    ELSE IF Len(elems) = 1
         THEN elems[1]
         ELSE elems[1] \o sep \o Join(Tail(elems), sep)

fdPath(fd) == "/dev/fd/" \o FormatDecimal(fd)

ConsoleDeviceName_AlwaysHvc(t, num) == "hvc" \o FormatDecimal(num)

ConsoleDeviceName(t, num) ==
    LET f == IF t = TransportTypeISA THEN "ttyS" ELSE "hvc"
    IN  f \o FormatDecimal(num)

\* The map lookup sharedDevices[transportType]: the zero value for a key the
\* map does not hold.
sharedDevices(t) ==
    IF t = TransportTypePCI
    THEN "virtio-serial-pci,max_ports=8"
    ELSE IF t = TransportTypeMMIO
         THEN "virtio-serial-device,max_ports=8"
         ELSE ""

consoleFunc_SharedDeviceEveryCall(t, id, shared, backend, args) ==
    LET conID == "con" \o FormatDecimal(id)
    IN  IF t \in {TransportTypePCI, TransportTypeMMIO}
        THEN [a |-> <<RepeatableArg("device", shared),
                      RepeatableArg("chardev", Join(<<backend, "id=" \o conID>> \o args, ",")),
                      RepeatableArg("device", "virtconsole,chardev=" \o conID)>>,
              consoleID |-> id + 1]
        ELSE [a |-> <<>>, consoleID |-> id]

\* The closure consoleArgsFunc returns, as a function of what it captures:
\* the arguments it returns and the value it leaves in consoleID.
consoleFunc(t, id, shared, backend, args) ==
    LET a0 == IF id = 0 /\ shared # ""
              THEN <<RepeatableArg("device", shared)>>
              ELSE <<>>
        conID == "con" \o FormatDecimal(id)
        chardevArgs == <<backend, "id=" \o conID>> \o args
        a1 == Append(a0, RepeatableArg("chardev", Join(chardevArgs, ",")))
    IN  IF t = TransportTypeISA
        THEN [a |-> Append(a1, RepeatableArg("serial", "chardev:" \o conID)),
              consoleID |-> id + 1]
        ELSE IF t \in {TransportTypePCI, TransportTypeMMIO}
             THEN [a |-> Append(a1, RepeatableArg("device",
                                        "virtconsole,chardev=" \o conID)),
                   consoleID |-> id + 1]
             ELSE [a |-> <<>>, consoleID |-> id]

ConsoleBackends == {"file", "stdio"}
ConsoleArgs == {<<>>, <<"path=" \o fdPath(1)>>, <<"path=" \o fdPath(3), "mux=on">>}

ConsIdle ==
    /\ transportType = ""
    /\ consoleID = 0
    /\ sharedDeviceValue = ""
    /\ consoleCalls = <<>>
    /\ devName = <<>>

\* consoleArgsFunc(transportType) has returned its closure.
ConsStart ==
    /\ transportType \in TransportTypes
    /\ consoleID = 0
    /\ sharedDeviceValue = sharedDevices(transportType)
    /\ consoleCalls = <<>>
    /\ devName = <<>>

CallConsoleDeviceName ==
    /\ \E num \in 0..MaxConsoleNum :
          devName' = <<[num |-> num, name |-> ConsoleDeviceName(transportType, num)]>>
    /\ UNCHANGED <<transportType, consoleID, sharedDeviceValue, consoleCalls>>
    /\ OnlyCons

CallConsole ==
    /\ Len(consoleCalls) < MaxConsoleCalls
    /\ \E backend \in ConsoleBackends, args \in ConsoleArgs :
          LET r == consoleFunc(transportType, consoleID, sharedDeviceValue,
                               backend, args)
          IN  /\ consoleID' = r.consoleID
              /\ consoleCalls' = Append(consoleCalls,
                     [backend |-> backend, args |-> args, a |-> r.a])
    /\ UNCHANGED <<transportType, sharedDeviceValue, devName>>
    /\ OnlyCons

ConsNext == CallConsoleDeviceName \/ CallConsole

\* C11: ConsoleDeviceName(n) is ttyS<n> exactly when the transport is ISA,
\* and hvc<n> when it is PCI or MMIO; for n = 0 that is ttyS0 and hvc0.
C11_ConsoleDeviceName ==
    devName # <<>> =>
        LET r == devName[1]
        IN  /\ (r.name = "ttyS" \o ToString(r.num)) <=> (transportType = TransportTypeISA)
            /\ transportType \in {TransportTypePCI, TransportTypeMMIO} =>
                  r.name = "hvc" \o ToString(r.num)
            /\ r.num = 0 =>
                  /\ transportType = TransportTypeISA => r.name = "ttyS0"
                  /\ transportType \in {TransportTypePCI, TransportTypeMMIO} =>
                        r.name = "hvc0"

\* A name with two digits was asked for on the ISA transport.
C11_Witness ==
    /\ devName # <<>>
    /\ devName[1].num = 10
    /\ devName[1].name = "ttyS10"
    /\ transportType = TransportTypeISA

\* The chardev value the k-th call is to return for its backend and options.
ExpectedChardev(call, k) ==
    call.backend \o ",id=con" \o ToString(k)
        \o (IF call.args = <<>> THEN "" ELSE "," \o Join(call.args, ","))

SysError(text, chain) == [text |-> text, chain |-> chain]

ErrNotPidOne == SysError("process does not have ID 1", {"ErrNotPidOne"})

\* errors.Is(e, ErrNotPidOne)
IsErrNotPidOne(e) == "ErrNotPidOne" \in e.chain

\* Exit codes the user function returns.
FnExitCodes == {0, 3, -1}

\* Errors the user function returns: none, one of its own, and one that
\* wraps the exported ErrNotPidOne.
FnErrors ==
    {<<>>,
     <<SysError("fn failed", {})>>,
     <<SysError("fn: process does not have ID 1", {"ErrNotPidOne"})>>}

FnResults == [exitCode : FnExitCodes, err : FnErrors]

\* Names of environment variables; os.Setenv refuses a name with "=" in it.
EnvKeys == {"TERM", "A=B"}
SetenvFails(key) == key = "A=B"

Configs ==
    [ModulesDir : {"", "/lib/modules"},
     ConfigureLoopback : BOOLEAN,
     Env : SUBSET EnvKeys]

\* The status the operating system keeps of os.Exit(code): its low 8 bits.
ExitStatusOf(code) == code % 256

Event(ev, arg) == [ev |-> ev, arg |-> arg]

SysIdle ==
    /\ sysPc = "idle"
    /\ isPidOne = FALSE
    /\ sysCfg = [ModulesDir |-> "", ConfigureLoopback |-> FALSE, Env |-> {}]
    /\ envLeft = {}
    /\ sysExitCode = <<>>
    /\ sysErr = <<>>
    /\ fnResult = <<>>
    /\ sysEvents = <<>>

\* Main has been called.
SysStart ==
    /\ sysPc = "IsPidOne"
    /\ isPidOne \in BOOLEAN
    /\ sysCfg \in Configs
    /\ envLeft = sysCfg.Env
    /\ sysExitCode = <<>>
    /\ sysErr = <<>>
    /\ fnResult = <<>>
    /\ sysEvents = <<>>

\* main returns (code, e) to Main.
mainReturns(code, e) ==
    /\ sysExitCode' = <<code>>
    /\ sysErr' = e
    /\ sysPc' = IF e = <<>> THEN "PrintExitCode" ELSE "Main:err"

\* One step of setup: it fails and main returns -1 with its error, or it
\* succeeds and setup goes on with the next step.
setupStep(name, fails, next) ==
    /\ sysEvents' = Append(sysEvents, Event(name, <<~fails>>))
    /\ IF fails
       THEN mainReturns(-1, <<SysError(name, {})>>)
       ELSE sysPc' = next /\ UNCHANGED <<sysExitCode, sysErr>>

\* main: the PID 1 guard
CheckPidOne ==
    /\ sysPc = "IsPidOne"
    /\ IF ~isPidOne
       THEN mainReturns(-2, <<ErrNotPidOne>>)
       ELSE sysPc' = "LoadModules" /\ UNCHANGED <<sysExitCode, sysErr>>
    /\ UNCHANGED <<isPidOne, sysCfg, envLeft, fnResult, sysEvents>>
    /\ OnlySys

\* setup: LoadModules, when a modules directory is configured
LoadModules ==
    /\ sysPc = "LoadModules"
    /\ IF sysCfg.ModulesDir = ""
       THEN sysPc' = "ConfigureLoopback"
            /\ UNCHANGED <<sysExitCode, sysErr, sysEvents>>
       ELSE \E fails \in BOOLEAN :
                setupStep("LoadModules", fails, "ConfigureLoopback")
    /\ UNCHANGED <<isPidOne, sysCfg, envLeft, fnResult>>
    /\ OnlySys

\* setup: ConfigureLoopbackInterface, when configured
ConfigureLoopbackInterface ==
    /\ sysPc = "ConfigureLoopback"
    /\ IF ~sysCfg.ConfigureLoopback
       THEN sysPc' = "MountAll" /\ UNCHANGED <<sysExitCode, sysErr, sysEvents>>
       ELSE \E fails \in BOOLEAN :
                setupStep("ConfigureLoopbackInterface", fails, "MountAll")
    /\ UNCHANGED <<isPidOne, sysCfg, envLeft, fnResult>>
    /\ OnlySys

\* setup: MountAll
MountAll ==
    /\ sysPc = "MountAll"
    /\ \E fails \in BOOLEAN : setupStep("MountAll", fails, "CreateSymlinks")
    /\ UNCHANGED <<isPidOne, sysCfg, envLeft, fnResult>>
    /\ OnlySys

\* setup: CreateSymlinks
CreateSymlinks ==
    /\ sysPc = "CreateSymlinks"
    /\ \E fails \in BOOLEAN : setupStep("CreateSymlinks", fails, "Setenv")
    /\ UNCHANGED <<isPidOne, sysCfg, envLeft, fnResult>>
    /\ OnlySys

\* setup: one round of the loop over cfg.Env, in the map's order
Setenv ==
    /\ sysPc = "Setenv"
    /\ envLeft # {}
    /\ \E key \in envLeft :
          /\ envLeft' = envLeft \ {key}
          /\ setupStep("Setenv", SetenvFails(key), "Setenv")
    /\ UNCHANGED <<isPidOne, sysCfg, fnResult>>
    /\ OnlySys

\* main: setup returned nil, return fn()
CallFn ==
    /\ sysPc = "Setenv"
    /\ envLeft = {}
    /\ \E r \in FnResults :
          /\ fnResult' = <<r>>
          /\ mainReturns(r.exitCode, r.err)
    /\ sysEvents' = Append(sysEvents, Event("fn", <<>>))
    /\ UNCHANGED <<isPidOne, sysCfg, envLeft>>
    /\ OnlySys

\* Main's error branch that leaves the exit code as main returned it.
MainOnError_KeepExitCode ==
    /\ sysPc = "Main:err"
    /\ UNCHANGED sysExitCode
    /\ IF IsErrNotPidOne(sysErr[1])
       THEN /\ sysEvents' = sysEvents \o
                   <<Event("PrintError", <<sysErr[1].text>>),
                     Event("os.Exit", <<ExitStatusOf(sysExitCode[1])>>)>>
            /\ sysPc' = "exited"
       ELSE /\ sysEvents' = Append(sysEvents, Event("PrintError", <<sysErr[1].text>>))
            /\ sysPc' = "PrintExitCode"
    /\ UNCHANGED <<isPidOne, sysCfg, envLeft, sysErr, fnResult>>
    /\ OnlySys

\* Main: err != nil. The error is printed, a zero exit code becomes -1, and
\* for an error that is ErrNotPidOne the process exits.
MainOnError ==
    /\ sysPc = "Main:err"
    /\ LET code == IF sysExitCode[1] = 0 THEN -1 ELSE sysExitCode[1]
       IN  /\ sysExitCode' = <<code>>
           /\ IF IsErrNotPidOne(sysErr[1])
              THEN /\ sysEvents' = sysEvents \o
                          <<Event("PrintError", <<sysErr[1].text>>),
                            Event("os.Exit", <<ExitStatusOf(code)>>)>>
                   /\ sysPc' = "exited"
              ELSE /\ sysEvents' = Append(sysEvents,
                                       Event("PrintError", <<sysErr[1].text>>))
                   /\ sysPc' = "PrintExitCode"
    /\ UNCHANGED <<isPidOne, sysCfg, envLeft, sysErr, fnResult>>
    /\ OnlySys

\* Main: PrintExitCode(os.Stdout, exitCode)
PrintExitCode ==
    /\ sysPc = "PrintExitCode"
    /\ sysEvents' = Append(sysEvents, Event("PrintExitCode", sysExitCode))
    /\ sysPc' = "Poweroff"
    /\ UNCHANGED <<isPidOne, sysCfg, envLeft, sysExitCode, sysErr, fnResult>>
    /\ OnlySys

\* Main: Poweroff(), whose reboot call may fail; Main returns.
Poweroff ==
    /\ sysPc = "Poweroff"
    /\ \E rebootFails \in BOOLEAN :
          sysEvents' = Append(sysEvents, Event("Poweroff", <<~rebootFails>>))
    /\ sysPc' = "returned"
    /\ UNCHANGED <<isPidOne, sysCfg, envLeft, sysExitCode, sysErr, fnResult>>
    /\ OnlySys

SysNext ==
    \/ CheckPidOne
    \/ LoadModules
    \/ ConfigureLoopbackInterface
    \/ MountAll
    \/ CreateSymlinks
    \/ Setenv
    \/ CallFn
    \/ MainOnError
    \/ PrintExitCode
    \/ Poweroff

\* Main is over: it returned after Poweroff, or the process exited.
SysDone == sysPc \in {"returned", "exited"}

\* The positions in the order of calls at which ev was called.
EventsAt(ev) == {i \in 1..Len(sysEvents) : sysEvents[i].ev = ev}

\* The exit codes communicated: those printed on stdout, and the exit status
\* of the process when it is not PID 1.
Communicated ==
    {sysEvents[i].arg[1] : i \in EventsAt("PrintExitCode")}
        \cup (IF isPidOne
              THEN {}
              ELSE {sysEvents[i].arg[1] : i \in EventsAt("os.Exit")})

NotPidOneExit ==
    /\ ~isPidOne
    /\ sysPc = "exited"
    /\ Communicated = {254}

SetupSteps ==
    {"LoadModules", "ConfigureLoopbackInterface", "MountAll", "CreateSymlinks",
     "Setenv"}

\* When the user function was called every setup step configured had been
\* called before it and had succeeded.
FnAfterSetup ==
    \A i \in EventsAt("fn") :
        /\ \A j \in 1..(i - 1) :
              sysEvents[j].ev \in SetupSteps /\ sysEvents[j].arg = <<TRUE>>
        /\ \E j \in 1..(i - 1) : sysEvents[j].ev = "MountAll"
        /\ \E j \in 1..(i - 1) : sysEvents[j].ev = "CreateSymlinks"
        /\ sysCfg.ModulesDir # "" =>
              \E j \in 1..(i - 1) : sysEvents[j].ev = "LoadModules"
        /\ sysCfg.ConfigureLoopback =>
              \E j \in 1..(i - 1) : sysEvents[j].ev = "ConfigureLoopbackInterface"
        /\ Cardinality({j \in 1..(i - 1) : sysEvents[j].ev = "Setenv"})
              = Cardinality(sysCfg.Env)

\* C15: as PID 1, Main prints exactly one exit-code line, after any error
\* output and before it calls Poweroff, and it always calls Poweroff; the
\* user function runs only after every setup step succeeded.  Not as PID 1,
\* no exit-code line is printed, Poweroff is never called and the process
\* exits directly.
C15_OrderOfTermination ==
    /\ isPidOne =>
          /\ Cardinality(EventsAt("PrintExitCode")) <= 1
          /\ FnAfterSetup
          /\ \A i \in EventsAt("PrintExitCode") :
                /\ \A j \in EventsAt("PrintError") : j < i
                /\ \A j \in EventsAt("Poweroff") : i < j
          /\ SysDone =>
                /\ Cardinality(EventsAt("PrintExitCode")) = 1
                /\ Cardinality(EventsAt("Poweroff")) = 1
                /\ sysPc = "returned"
    /\ ~isPidOne =>
          /\ EventsAt("PrintExitCode") = {}
          /\ EventsAt("Poweroff") = {}
          /\ EventsAt("fn") = {}
          /\ EventsAt("os.Exit") # {} => sysPc = "exited"
          /\ SysDone => EventsAt("os.Exit") # {}

(***************************************************************************)
(* Specifications                                                          *)
(***************************************************************************)

ArgsNext == CallBuildArgumentStrings

ErrNext == CallHandleRunError

ArgsInit == ArgsStart /\ ErrIdle /\ RunIdle /\ SupIdle /\ ConsIdle /\ SysIdle
SpecArgs == ArgsInit /\ [][ArgsNext]_vars

ErrInit == ArgsIdle /\ ErrStart /\ RunIdle /\ SupIdle /\ ConsIdle /\ SysIdle
SpecErr == ErrInit /\ [][ErrNext]_vars

RunInit == ArgsIdle /\ ErrIdle /\ RunStart /\ SupIdle /\ ConsIdle /\ SysIdle
SpecRun == RunInit /\ [][RunNext]_vars

ConsInit == ArgsIdle /\ ErrIdle /\ RunIdle /\ SupIdle /\ ConsStart /\ SysIdle
SpecCons == ConsInit /\ [][ConsNext]_vars

SysInit == ArgsIdle /\ ErrIdle /\ RunIdle /\ SupIdle /\ ConsIdle /\ SysStart
SpecSys == SysInit /\ [][SysNext]_vars

Init == ArgsIdle /\ ErrIdle /\ RunIdle /\ SupStart /\ ConsIdle /\ SysIdle
Next == SupNext
Spec == Init /\ [][Next]_vars
FairSpec == Spec /\ Fairness

====
